---- MODULE Spec2Model ----
(***************************************************************************)
(* Model of src/data/generate_hdf5.py: the batch conversion of robot       *)
(* episodes (a parquet record file plus one video per camera) into HDF5    *)
(* containers.  main() walks os.listdir(data_dir) and calls                *)
(* process_episode() for every *.parquet entry; process_episode() loads    *)
(* and validates the table, prepares the output directory, skips when the  *)
(* container exists, decodes the videos through read_video(), validates    *)
(* the step counts and calls create_hdf5_file().                           *)
(*                                                                         *)
(* The file system is part of the state.  The content of an input file is  *)
(* fixed the first time the program reads it and never changes afterwards  *)
(* (the inputs of a run are unchanged between runs).                       *)
(***************************************************************************)
EXTENDS Integers, Sequences, FiniteSets, TLC

\* ---------------------------------------------------------------- bounds
\* Largest number of rows of a record file.
MaxSteps == 2
\* Largest number of frames of a video file.
MaxFrames == 2
\* Number of record files of the longer data directory.
NumEpisodes == 2
\* Number of times main() is run over the same inputs.
NumRuns == 2

\* ------------------------------------------------------ program constants
\* assert state_array.shape[1] == 28
NumJoints == 28
\* frames_array.shape[1:] == (3, 480, 640)
Channels == 3
Height == 480
Width == 640

state_col_name == "observation.state"
action_col_name == "action"
RequiredColumns == {state_col_name, action_col_name}

\* The four camera identifiers of the video tree.
Cams == {"cam_right_high", "cam_left_high", "cam_left_wrist", "cam_right_wrist"}
\* for cam_name in ['cam_left_wrist', 'cam_right_wrist']
SecondaryCams == <<"cam_left_wrist", "cam_right_wrist">>
\* for cam_name in ['cam_right_high', 'cam_left_wrist', 'cam_right_wrist']
WrittenCams == <<"cam_right_high", "cam_left_wrist", "cam_right_wrist">>

Unread == [kind |-> "unread"]
NoFile == [origin |-> "nofile"]
\* A container that was on disk before the first run (content opaque).
Preexisting == [origin |-> "preexisting"]

Range(s) == {s[i] : i \in 1..Len(s)}

\* ------------------------------------------------------------ input files
\* A column of n cells; each cell is a numeric sequence, given by its length.
\* All uniform columns over the two widths, and one ragged column per n >= 2.
Columns(n) ==
  {[i \in 1..n |-> w] : w \in {NumJoints - 1, NumJoints}}
    \cup (IF n >= 2 THEN {[i \in 1..n |-> IF i = 1 THEN NumJoints ELSE NumJoints - 1]}
                    ELSE {})

\* A record file: the column names of the table and the cells of each column
\* (every column of a table has nrows cells).
Tables ==
  UNION {UNION {[names : {present}, nrows : {n}, cols : [present -> Columns(n)]]
                  : present \in SUBSET RequiredColumns}
           : n \in 0..MaxSteps}

\* Record files of the longer directory: a valid one-row table, a table whose
\* state rows have 27 entries, and a table without the action column.
CoreTables ==
  {[names |-> RequiredColumns, nrows |-> 1,
    cols |-> [c \in RequiredColumns |-> <<NumJoints>>]],
   [names |-> RequiredColumns, nrows |-> 1,
    cols |-> [c \in RequiredColumns |->
                IF c = state_col_name THEN <<NumJoints - 1>> ELSE <<NumJoints>>]],
   [names |-> {state_col_name}, nrows |-> 1,
    cols |-> [c \in {state_col_name} |-> <<NumJoints>>]]}

\* Native (height, width, channel) frame layouts a decoder can deliver.
FrameShapes == {<<Height, Width, Channels>>, <<Width, Height, Channels>>}

\* A video file: absent, undecodable, or a stream of n frames of one layout.
VideoFiles ==
  {[kind |-> "missing", n |-> 0, frame |-> <<>>],
   [kind |-> "corrupt", n |-> 0, frame |-> <<>>],
   [kind |-> "video", n |-> 0, frame |-> <<>>]}
    \cup [kind : {"video"}, n : 1..MaxFrames, frame : FrameShapes]

CoreVideoFiles ==
  {[kind |-> "missing", n |-> 0, frame |-> <<>>],
   [kind |-> "video", n |-> 1, frame |-> <<Height, Width, Channels>>]}

\* A directory entry of data_dir: <stem><ext>.
Entry(stem, ext) == [stem |-> stem, ext |-> ext]
\* os.listdir(data_dir) of a directory with k record files and one other file.
Listing(k) ==
  [i \in 1..(k + 1) |->
     IF i = 1 THEN Entry(1, ".parquet")
     ELSE IF i = 2 THEN Entry(0, ".json")
     ELSE Entry(i - 1, ".parquet")]

\* ------------------------------------------------------- pure functions
\* parquet_file.endswith('.parquet')
endswith_parquet(entry) == entry.ext = ".parquet"
\* os.path.splitext(os.path.basename(parquet_path))[0]
splitext_basename(entry) == entry.stem

\* np.array([np.array(item) for item in raw]): no cells give shape (0,),
\* cells of one length w give shape (n, w), cells of different lengths give a
\* 1-D array of objects.
to_numpy_2d(cells, src) ==
  LET n == Len(cells) IN
  IF n = 0 THEN [ndim |-> 1, shape |-> <<0>>, dtype |-> "float64", src |-> src]
  ELSE IF \A i \in 1..n : cells[i] = cells[1]
       THEN [ndim |-> 2, shape |-> <<n, cells[1]>>, dtype |-> "float64", src |-> src]
       ELSE [ndim |-> 1, shape |-> <<n>>, dtype |-> "object", src |-> src]

\* array.astype(np.float32)
astype(array, dtype) == [array EXCEPT !.dtype = dtype]

\* names.index(state_col_name); names.index(action_col_name)
ColumnsFound(table) == state_col_name \in table.names /\ action_col_name \in table.names

\* Variant: the state column count is not asserted.
StateShapeNoWidth(array) == array.ndim = 2
\* assert state_array.ndim == 2; assert state_array.shape[1] == 28
StateShapeOk(array) == array.ndim = 2 /\ array.shape[2] = NumJoints

\* Variant: the action column count is not asserted.
ActionShapeNoWidth(array) == array.ndim = 2
\* assert action_array.ndim == 2; assert action_array.shape[1] == 28
ActionShapeOk(array) == array.ndim = 2 /\ array.shape[2] = NumJoints

NoError == [type |-> "none", at |-> "none"]
Raise(type, at) == [type |-> type, at |-> at]

\* The exceptions the loader part of process_episode can end with on a table
\* (none: the empty set).  A ragged column fails the ndim assertion, or, on a
\* numpy that refuses ragged input, np.array raises ValueError.
LoaderErrors(table, name) ==
  IF ~ColumnsFound(table) THEN {Raise("KeyError", "loader")}
  ELSE LET state_array == to_numpy_2d(table.cols[state_col_name], <<name, state_col_name>>)
           action_array == to_numpy_2d(table.cols[action_col_name], <<name, action_col_name>>)
       IN IF state_array.dtype = "object" \/ action_array.dtype = "object"
          THEN {Raise("AssertionError", "loader"), Raise("ValueError", "loader")}
          ELSE IF StateShapeOk(state_array) /\ ActionShapeOk(action_array)
               THEN {}
               ELSE {Raise("AssertionError", "loader")}

NoArray == [ndim |-> 0, shape |-> <<>>, dtype |-> "none", src |-> <<>>]
EmptyData == [qpos |-> NoArray, action |-> NoArray, images |-> <<>>]

\* episode_data = {'qpos': state_array, 'action': action_array, 'images': {}}
LoadedData(table, name) ==
  [qpos |-> astype(to_numpy_2d(table.cols[state_col_name], <<name, state_col_name>>),
                   "float32"),
   action |-> astype(to_numpy_2d(table.cols[action_col_name], <<name, action_col_name>>),
                     "float32"),
   images |-> <<>>]

\* frame.transpose(2, 0, 1): axis i of the result is axis perm[i] of the frame.
transpose(shape, perm) == [i \in 1..Len(perm) |-> shape[perm[i] + 1]]

\* Variant: the frame shape is not asserted.
FrameShapeAny(frames_array) == TRUE
\* assert frames_array.shape[1:] == (3, 480, 640)
FrameShapeOk(frames_array) ==
  SubSeq(frames_array.shape, 2, 4) = <<Channels, Height, Width>>

\* np.empty((0, 3, 480, 640))
EmptyFrames ==
  [ndim |-> 4, shape |-> <<0, Channels, Height, Width>>, dtype |-> "float64",
   src |-> <<>>]

\* The try block of read_video: the exception it ends with, or the array.
TryDecode(file, video_path) ==
  IF file.kind = "missing"
  THEN [exc |-> "FileNotFoundError", value |-> NoArray]     \* imageio.get_reader
  ELSE IF file.kind = "corrupt"
  THEN [exc |-> "RuntimeError", value |-> NoArray]          \* for frame in reader
  ELSE IF file.n = 0
  THEN [exc |-> "ValueError", value |-> NoArray]            \* np.stack([])
  ELSE LET frames_array ==
             [ndim |-> 4, shape |-> <<file.n>> \o transpose(file.frame, <<2, 0, 1>>),
              dtype |-> "uint8", src |-> video_path]
       IN IF FrameShapeOk(frames_array)
          THEN [exc |-> "none", value |-> frames_array]
          ELSE [exc |-> "AssertionError", value |-> NoArray]

\* except Exception as e: every exception the try block raises is an Exception.
Caught(exc) ==
  exc \in {"FileNotFoundError", "RuntimeError", "ValueError", "AssertionError"}

\* read_video(video_path): the array returned, or the exception propagated.
read_video(file, video_path) ==
  LET t == TryDecode(file, video_path) IN
  IF t.exc = "none" THEN [raised |-> "none", value |-> t.value]
  ELSE IF Caught(t.exc) THEN [raised |-> "none", value |-> EmptyFrames]
  ELSE [raised |-> t.exc, value |-> NoArray]

\* Variant: a camera without frames is let through.
StepsMatchOrEmpty(frames, steps) == frames.shape[1] = 0 \/ frames.shape[1] = steps
\* assert episode_data['images'][cam_name].shape[0] == steps
StepsMatch(frames, steps) == frames.shape[1] = steps

\* for cam_name in episode_data['images']: the positions (in insertion order)
\* of the cameras whose frame count differs from steps.
Mismatches(data) ==
  {i \in 1..Len(WrittenCams) :
     /\ WrittenCams[i] \in DOMAIN data.images
     /\ ~StepsMatch(data.images[WrittenCams[i]], data.qpos.shape[1])}

\* create_hdf5_file(output_path, episode_data): the container written.
create_hdf5_file(data) ==
  [origin |-> "create_hdf5_file",
   attrs |-> [codebase_version |-> "v2.0", robot_type |-> "Unitree_G1"],
   qpos |-> [data |-> astype(data.qpos, "float32"), names |-> "joint_names"],
   images |-> [c \in Range(WrittenCams) |->
                 [data |-> astype(data.images[c], "uint8"), fps |-> 30,
                  height |-> Height, width |-> Width, channels |-> Channels]],
   action |-> [data |-> astype(data.action, "float32"), names |-> "joint_names"]]

\* File handles: who opened which resource.
Handle(owner, res) == [owner |-> owner, res |-> res]

\* What is still open when a function ends.  Neither pq.ParquetFile nor the
\* imageio reader is closed by the code: each is released when its last
\* reference goes.  A return drops the function's locals; an exception that
\* leaves the function keeps its frame (and locals) alive in the traceback.
ReleaseAtExit(handles, owner, how) ==
  IF how = "return" THEN {h \in handles : h.owner # owner} ELSE handles

\* ------------------------------------------------------------------ state
VARIABLES
  listing,       \* os.listdir(data_dir), the same in every run
  tables,        \* record file of each episode (Unread until first read)
  videos,        \* video file of each (episode, camera) (Unread until first read)
  out_dirs,      \* episodes whose output directory exists
  out_files,     \* the container of each episode, or NoFile
  run,           \* number of the current run of main()
  main_pc,       \* "stopped", "loop", "returned", "raised"
  idx,           \* position of main's for loop in listing
  pc,            \* position of process_episode
  episode_name,  \* local of process_episode
  episode_data,  \* local of process_episode
  cam_i,         \* position of the loop over the secondary cameras
  error,         \* the exception process_episode ended with
  handles,       \* open file handles
  call,          \* history of the current call of process_episode
  snap,          \* the output tree when the current run began
  writes,        \* <<run, episode>> of every create_hdf5_file call
  called,        \* episodes process_episode was called for in this run
  variant,       \* which viewer runs: "play_hdf5" or "snapshot_download"
  app,           \* the viewer's event loop: "running" or "aborted"
  hdf5_data,     \* HDF5Viewer.hdf5_data
  camera_names,  \* HDF5Viewer.camera_names
  total_frames,  \* HDF5Viewer.total_frames
  current_frame, \* HDF5Viewer.current_frame
  preprocessed_images, \* HDF5Viewer.preprocessed_images (snapshot_download.py)
  timer_active,  \* HDF5Viewer.timer.isActive()
  last_tick      \* history of update_frame, when it was the last event

pipeline_vars ==
  <<listing, tables, videos, out_dirs, out_files, run, main_pc, idx, pc,
    episode_name, episode_data, cam_i, error, handles, call, snap, writes, called>>

viewer_vars ==
  <<variant, app, hdf5_data, camera_names, total_frames, current_frame,
    preprocessed_images, timer_active, last_tick>>

vars == <<pipeline_vars, viewer_vars>>

Episodes == 1..NumEpisodes

RecordFiles(dir) == {i \in 1..Len(dir) : endswith_parquet(dir[i])}
RecordStems(dir) == {splitext_basename(dir[i]) : i \in RecordFiles(dir)}

\* The input space: every content for a directory of one episode, the core
\* contents for a longer directory.
InputTables == IF Cardinality(RecordFiles(listing)) = 1 THEN Tables ELSE CoreTables
InputVideos == IF Cardinality(RecordFiles(listing)) = 1 THEN VideoFiles ELSE CoreVideoFiles

\* A file read for the first time may hold any content; later reads see the same.
TableChoices(name) == IF tables[name] = Unread THEN InputTables ELSE {tables[name]}
VideoChoices(name, cam) ==
  IF videos[<<name, cam>>] = Unread THEN InputVideos ELSE {videos[<<name, cam>>]}

NoCall ==
  [name |-> 0, existed |-> FALSE, file0 |-> NoFile, dir0 |-> FALSE, ran |-> {},
   reads |-> <<>>, outcome |-> "none"]

\* The conversion has not started.
PipelineInit ==
  /\ listing \in {Listing(1), Listing(NumEpisodes)}
  /\ tables = [e \in Episodes |-> Unread]
  /\ videos = [v \in Episodes \X Cams |-> Unread]
  /\ out_dirs \in SUBSET RecordStems(listing)
  /\ out_files \in [Episodes -> {NoFile, Preexisting}]
  /\ \A e \in Episodes : out_files[e] # NoFile => e \in out_dirs
  /\ run = 0
  /\ main_pc = "stopped"
  /\ idx = 1
  /\ pc = "idle"
  /\ episode_name = 0
  /\ episode_data = EmptyData
  /\ cam_i = 1
  /\ error = NoError
  /\ handles = {}
  /\ call = NoCall
  /\ snap = [dirs |-> out_dirs, files |-> out_files]
  /\ writes = {}
  /\ called = {}

\* hdf5_data is None.
NoContainer == [open |-> FALSE, images |-> <<>>]
NoTick == [ran |-> FALSE, found |-> 0, total |-> 0, reads |-> {}, timer |-> FALSE]

\* HDF5Viewer.__init__ (either viewer); no viewer event has happened.
ViewerConstructed ==
  /\ variant \in {"play_hdf5", "snapshot_download"}
  /\ app = "running"
  /\ hdf5_data = NoContainer
  /\ camera_names = <<>>
  /\ total_frames = 0
  /\ current_frame = 0
  /\ preprocessed_images = <<>>
  /\ timer_active = FALSE
  /\ last_tick = NoTick

Init == PipelineInit /\ ViewerConstructed

InCall == pc \in {"load", "output", "right", "left", "wrists", "validate", "write"}

\* ------------------------------------------------------------------ main
\* python generate_hdf5.py: a new process runs main(); whatever the previous
\* process held open was released when it exited.
MainStart ==
  /\ main_pc \in {"stopped", "returned", "raised"}
  /\ run < NumRuns
  /\ run' = run + 1
  /\ main_pc' = "loop"
  /\ idx' = 1
  /\ pc' = "idle"
  /\ episode_name' = 0
  /\ episode_data' = EmptyData
  /\ cam_i' = 1
  /\ error' = NoError
  /\ handles' = {}
  /\ call' = NoCall
  /\ snap' = [dirs |-> out_dirs, files |-> out_files]
  /\ called' = {}
  /\ UNCHANGED <<listing, tables, videos, out_dirs, out_files, writes>>
  /\ UNCHANGED viewer_vars

\* for parquet_file in os.listdir(data_dir): an entry that is no record file.
MainSkipEntry ==
  /\ main_pc = "loop" /\ ~InCall
  /\ idx <= Len(listing)
  /\ ~endswith_parquet(listing[idx])
  /\ idx' = idx + 1
  /\ UNCHANGED <<listing, tables, videos, out_dirs, out_files, run, main_pc, pc,
                 episode_name, episode_data, cam_i, error, handles, call, snap,
                 writes, called>>
  /\ UNCHANGED viewer_vars

\* process_episode(parquet_path, video_root_dir, base_output_dir) is entered.
MainCall ==
  /\ main_pc = "loop" /\ ~InCall
  /\ idx <= Len(listing)
  /\ endswith_parquet(listing[idx])
  /\ LET name == splitext_basename(listing[idx]) IN
       /\ episode_name' = name
       /\ call' = [name |-> name, existed |-> out_files[name] # NoFile,
                   file0 |-> out_files[name], dir0 |-> name \in out_dirs,
                   ran |-> {}, reads |-> <<>>, outcome |-> "running"]
       /\ called' = called \cup {name}
  /\ pc' = "load"
  /\ episode_data' = EmptyData
  /\ cam_i' = 1
  /\ UNCHANGED <<listing, tables, videos, out_dirs, out_files, run, main_pc, idx,
                 error, handles, snap, writes>>
  /\ UNCHANGED viewer_vars

\* The for loop is exhausted: main() returns.
MainReturn ==
  /\ main_pc = "loop" /\ ~InCall
  /\ idx > Len(listing)
  /\ main_pc' = "returned"
  /\ UNCHANGED <<listing, tables, videos, out_dirs, out_files, run, idx, pc,
                 episode_name, episode_data, cam_i, error, handles, call, snap,
                 writes, called>>
  /\ UNCHANGED viewer_vars

\* ------------------------------------------------------- process_episode
\* The call's history: a component ran; read_video returned value for cam.
Ran(c, component) == [c EXCEPT !.ran = @ \cup {component}]
Noted(c, cam, value) ==
  [c EXCEPT !.ran = @ \cup {"video"}, !.reads = (cam :> value) @@ @]

\* process_episode returns to main's loop.
Returns(outcome, c) ==
  /\ pc' = "returned"
  /\ idx' = idx + 1
  /\ call' = [c EXCEPT !.outcome = outcome]
  /\ error' = NoError
  /\ UNCHANGED main_pc

\* process_episode raises; main() has no handler, so main() ends with it.
Raises(exc, c) ==
  /\ pc' = "raised"
  /\ main_pc' = "raised"
  /\ call' = [c EXCEPT !.outcome = "raised"]
  /\ error' = exc
  /\ UNCHANGED idx

\* Lines 120-162: open and read the record file, find the columns, build and
\* validate the arrays.
LoadEpisode ==
  /\ pc = "load"
  /\ \E table \in TableChoices(episode_name) :
       /\ tables' = [tables EXCEPT ![episode_name] = table]
       /\ IF LoaderErrors(table, episode_name) = {}
          THEN /\ episode_data' = LoadedData(table, episode_name)
               /\ pc' = "output"
               /\ call' = Ran(call, "loader")
               /\ handles' = handles \cup {Handle("process_episode", "parquet")}
               /\ UNCHANGED <<main_pc, idx, error>>
          ELSE /\ \E exc \in LoaderErrors(table, episode_name) : Raises(exc, Ran(call, "loader"))
               /\ handles' = ReleaseAtExit(
                                handles \cup {Handle("process_episode", "parquet")},
                                "process_episode", "raise")
               /\ UNCHANGED episode_data
  /\ UNCHANGED <<listing, videos, out_dirs, out_files, run, episode_name, cam_i,
                 snap, writes, called>>
  /\ UNCHANGED viewer_vars

\* Variant: the existing container is not seen.
ExistsNever(files, name) == FALSE
\* os.path.exists(output_path)
exists(files, name) == files[name] # NoFile

\* Lines 164-172: create the episode's directory, return if the container exists.
PrepareOutput ==
  /\ pc = "output"
  /\ out_dirs' = out_dirs \cup {episode_name}
  /\ IF exists(out_files, episode_name)
     THEN /\ Returns("skipped", call)
          /\ handles' = ReleaseAtExit(handles, "process_episode", "return")
     ELSE /\ pc' = "right"
          /\ UNCHANGED <<main_pc, idx, call, error, handles>>
  /\ UNCHANGED <<listing, tables, videos, out_files, run, episode_name,
                 episode_data, cam_i, snap, writes, called>>
  /\ UNCHANGED viewer_vars

\* The handles after a call of read_video on `file`: the reader it opened (when
\* the file could be opened) is a local of read_video.
AfterReadVideo(hs, file, how) ==
  ReleaseAtExit(IF file.kind = "missing" THEN hs
                ELSE hs \cup {Handle("read_video", "reader")},
                "read_video", how)

\* read_video raised: the exception leaves process_episode as well.
ReadRaises(r, hs) ==
  /\ Raises(Raise(r.raised, "read_video"), Ran(call, "video"))
  /\ handles' = ReleaseAtExit(hs, "process_episode", "raise")
  /\ UNCHANGED <<episode_data, cam_i>>

\* episode_data['images'][key] = value
SetImage(data, key, value) == [data EXCEPT !.images = (key :> value) @@ @]

\* Lines 174-184: decode cam_right_high and use it when it has frames.
ReadRight ==
  /\ pc = "right"
  /\ \E file \in VideoChoices(episode_name, "cam_right_high") :
       LET r == read_video(file, <<episode_name, "cam_right_high">>)
           right_video_data == r.value
           hs == AfterReadVideo(handles, file,
                                IF r.raised = "none" THEN "return" ELSE "raise")
       IN /\ videos' = [videos EXCEPT ![<<episode_name, "cam_right_high">>] = file]
          /\ IF r.raised # "none" THEN ReadRaises(r, hs)
             ELSE /\ call' = Noted(call, "cam_right_high", right_video_data)
                  /\ handles' = hs
                  /\ IF right_video_data.shape[1] > 0
                     THEN /\ episode_data' =
                               SetImage(episode_data, "cam_right_high", right_video_data)
                          /\ pc' = "wrists"
                     ELSE /\ pc' = "left"
                          /\ UNCHANGED episode_data
                  /\ UNCHANGED <<main_pc, idx, error, cam_i>>
  /\ UNCHANGED <<listing, tables, out_dirs, out_files, run, episode_name, snap,
                 writes, called>>
  /\ UNCHANGED viewer_vars

\* Variant: the empty cam_right_high array is stored.
FallbackKeepsRight(right_video_data, left_video_data) == right_video_data
\* episode_data['images']['cam_right_high'] = left_video_data
FallbackImage(right_video_data, left_video_data) == left_video_data

\* Lines 185-198: cam_right_high had no frames; decode cam_left_high and store
\* it under cam_right_high, or give the episode up.
ReadLeft ==
  /\ pc = "left"
  /\ \E file \in VideoChoices(episode_name, "cam_left_high") :
       LET r == read_video(file, <<episode_name, "cam_left_high">>)
           left_video_data == r.value
           right_video_data == call.reads["cam_right_high"]
           hs == AfterReadVideo(handles, file,
                                IF r.raised = "none" THEN "return" ELSE "raise")
       IN /\ videos' = [videos EXCEPT ![<<episode_name, "cam_left_high">>] = file]
          /\ IF r.raised # "none" THEN ReadRaises(r, hs)
             ELSE IF left_video_data.shape[1] > 0
             THEN /\ call' = Noted(call, "cam_left_high", left_video_data)
                  /\ handles' = hs
                  /\ episode_data' =
                       SetImage(episode_data, "cam_right_high",
                                FallbackImage(right_video_data, left_video_data))
                  /\ pc' = "wrists"
                  /\ UNCHANGED <<main_pc, idx, error, cam_i>>
             ELSE /\ Returns("primary_failed",
                             Noted(call, "cam_left_high", left_video_data))
                  /\ handles' = ReleaseAtExit(hs, "process_episode", "return")
                  /\ UNCHANGED <<episode_data, cam_i>>
  /\ UNCHANGED <<listing, tables, out_dirs, out_files, run, episode_name, snap,
                 writes, called>>
  /\ UNCHANGED viewer_vars

\* Lines 200-208: decode the next secondary camera; whatever read_video
\* returns is stored.
ReadSecondary ==
  /\ pc = "wrists"
  /\ LET cam_name == SecondaryCams[cam_i] IN
     \E file \in VideoChoices(episode_name, cam_name) :
       LET r == read_video(file, <<episode_name, cam_name>>)
           hs == AfterReadVideo(handles, file,
                                IF r.raised = "none" THEN "return" ELSE "raise")
       IN /\ videos' = [videos EXCEPT ![<<episode_name, cam_name>>] = file]
          /\ IF r.raised # "none" THEN ReadRaises(r, hs)
             ELSE /\ call' = Noted(call, cam_name, r.value)
                  /\ handles' = hs
                  /\ episode_data' = SetImage(episode_data, cam_name, r.value)
                  /\ IF cam_i < Len(SecondaryCams)
                     THEN cam_i' = cam_i + 1 /\ pc' = "wrists"
                     ELSE cam_i' = cam_i /\ pc' = "validate"
                  /\ UNCHANGED <<main_pc, idx, error>>
  /\ UNCHANGED <<listing, tables, out_dirs, out_files, run, episode_name, snap,
                 writes, called>>
  /\ UNCHANGED viewer_vars

\* Lines 210-214: every stored camera must have as many frames as qpos has rows.
Validate ==
  /\ pc = "validate"
  /\ IF Mismatches(episode_data) = {}
     THEN /\ pc' = "write"
          /\ call' = Ran(call, "validator")
          /\ UNCHANGED <<main_pc, idx, error, handles>>
     ELSE /\ Raises(Raise("AssertionError", "validator"), Ran(call, "validator"))
          /\ handles' = ReleaseAtExit(handles, "process_episode", "raise")
  /\ UNCHANGED <<listing, tables, videos, out_dirs, out_files, run, episode_name,
                 episode_data, cam_i, snap, writes, called>>
  /\ UNCHANGED viewer_vars

\* Lines 216-228: create the directory and write the container; the file
\* opened by create_hdf5_file is closed by its with statement.
WriteContainer ==
  /\ pc = "write"
  /\ out_dirs' = out_dirs \cup {episode_name}
  /\ out_files' = [out_files EXCEPT ![episode_name] = create_hdf5_file(episode_data)]
  /\ writes' = writes \cup {<<run, episode_name>>}
  /\ Returns("written", Ran(call, "writer"))
  /\ handles' = ReleaseAtExit(
                   ReleaseAtExit(handles \cup {Handle("create_hdf5_file", "hdf5")},
                                 "create_hdf5_file", "return"),
                   "process_episode", "return")
  /\ UNCHANGED <<listing, tables, videos, run, episode_name, episode_data, cam_i,
                 snap, called>>
  /\ UNCHANGED viewer_vars

Next ==
  \/ MainStart
  \/ MainSkipEntry
  \/ MainCall
  \/ MainReturn
  \/ LoadEpisode
  \/ PrepareOutput
  \/ ReadRight
  \/ ReadLeft
  \/ ReadSecondary
  \/ Validate
  \/ WriteContainer

Spec == Init /\ [][Next]_vars

\* ----------------------------------------------------------------- viewer
\* src/data/play_hdf5.py and src/snapshot_download.py: HDF5Viewer.  The user
\* loads a container and toggles play; the timer calls update_frame.

\* list(images_group.keys()): h5py lists the members of a group by name.
KeyOrder == <<"cam_left_wrist", "cam_right_high", "cam_right_wrist">>
keys(images) == SelectSeq(KeyOrder, LAMBDA c : c \in DOMAIN images)

\* The container files the user can pick: any set of camera datasets, each
\* with its own number of frames, and a qpos dataset.
ViewerContainers ==
  UNION {[open : {TRUE}, qpos : {<<n, NumJoints>> : n \in 0..MaxSteps},
          images : [S -> {<<n, Channels, Height, Width>> : n \in 0..MaxFrames}]]
           : S \in SUBSET Range(KeyOrder)}

\* dataset[index] for index >= 0: the index has to be below the frame count.
InRange(shape, index) == 0 <= index /\ index < shape[1]

\* Variant: the comparison is off by one.
FrameAvailableInclusive(frame, total) == frame <= total
\* if self.current_frame < self.total_frames
FrameAvailable(frame, total) == frame < total

\* for i, cam_name in enumerate(self.camera_names): frame = images[cam_name][frame]
\* The positions of the cameras whose dataset has no such frame.
BadReads(images, names, frame) ==
  {i \in 1..Len(names) : ~InRange(images[names[i]], frame)}

\* The cameras the loop reads (up to and including the first failing one).
ReadsOfLoop(images, names, frame) ==
  LET bad == BadReads(images, names, frame) IN
  {[cam |-> names[i], index |-> frame] :
     i \in {j \in 1..Len(names) : \A b \in bad : j <= b}}

\* An exception leaves a slot: PyQt aborts the application, unless an
\* exception hook is installed, in which case the event loop goes on.
AfterSlotException == {"aborted", "running"}

\* toggle_play (the same in both viewers).
toggle_play ==
  /\ app = "running"
  /\ timer_active' = ~timer_active
  /\ last_tick' = NoTick
  /\ UNCHANGED <<variant, app, hdf5_data, camera_names, total_frames,
                 current_frame, preprocessed_images>>
  /\ UNCHANGED pipeline_vars

\* The timer fires update_frame with the frames taken from `images`; AtEnd is
\* the value of current_frame after the else branch.
Tick(images, AtEnd) ==
  /\ app = "running" /\ timer_active
  /\ IF FrameAvailable(current_frame, total_frames)
     THEN LET reads == ReadsOfLoop(images, camera_names, current_frame)
              failed == BadReads(images, camera_names, current_frame) # {}
          IN /\ IF failed
                THEN app' \in AfterSlotException /\ UNCHANGED current_frame
                ELSE app' = app /\ current_frame' = current_frame + 1
             /\ timer_active' = timer_active
             /\ last_tick' = [ran |-> TRUE, found |-> current_frame,
                              total |-> total_frames, reads |-> reads,
                              timer |-> timer_active]
     ELSE /\ timer_active' = FALSE
          /\ current_frame' = AtEnd
          /\ app' = app
          /\ last_tick' = [ran |-> TRUE, found |-> current_frame,
                           total |-> total_frames, reads |-> {}, timer |-> FALSE]
  /\ UNCHANGED <<variant, hdf5_data, camera_names, total_frames, preprocessed_images>>
  /\ UNCHANGED pipeline_vars

\* play_hdf5.py update_frame: frames are read from the open container; at the
\* end the timer is stopped and current_frame goes back to 0.
update_frame ==
  /\ variant = "play_hdf5"
  /\ Tick(hdf5_data.images, 0)

\* snapshot_download.py update_frame and show_current_frame: frames are read
\* from preprocessed_images (the frame loader thread reads nothing); at the
\* end the timer is stopped and current_frame stays.
update_frame_preprocessed ==
  /\ variant = "snapshot_download"
  /\ Tick(preprocessed_images, current_frame)

\* data.transpose(0, 2, 3, 1) of every camera dataset
Preprocess(images) == [c \in DOMAIN images |-> transpose(images[c], <<0, 2, 3, 1>>)]

\* load_file and init_video with the file the dialog returned (or none);
\* preprocess says whether init_video fills preprocessed_images.  A container
\* without camera datasets makes self.camera_names[0] raise after hdf5_data
\* and camera_names are set.
Load(preprocess) ==
  /\ app = "running"
  /\ last_tick' = NoTick
  /\ \/ UNCHANGED <<app, hdf5_data, camera_names, total_frames, preprocessed_images>>
     \/ \E file \in ViewerContainers :
          /\ hdf5_data' = file
          /\ camera_names' = keys(file.images)
          /\ IF Len(keys(file.images)) = 0
             THEN /\ app' \in AfterSlotException
                  /\ UNCHANGED <<total_frames, preprocessed_images>>
             ELSE /\ total_frames' = file.images[keys(file.images)[1]][1]
                  /\ preprocessed_images' =
                       IF preprocess THEN Preprocess(file.images)
                       ELSE preprocessed_images
                  /\ app' = app
  /\ UNCHANGED <<variant, current_frame, timer_active>>
  /\ UNCHANGED pipeline_vars

\* play_hdf5.py load_file, init_video.
load_file ==
  /\ variant = "play_hdf5"
  /\ Load(FALSE)

\* snapshot_download.py load_file, init_video.
load_file_preprocessed ==
  /\ variant = "snapshot_download"
  /\ Load(TRUE)

ViewerInit ==
  /\ PipelineInit
  /\ listing = Listing(1) /\ out_dirs = {}
  /\ ViewerConstructed

ViewerNext ==
  \/ toggle_play
  \/ update_frame
  \/ update_frame_preprocessed
  \/ load_file
  \/ load_file_preprocessed

ViewerSpec == ViewerInit /\ [][ViewerNext]_vars

\* ----------------------------------------------------------------- claims
\* A video file that decodes: it is there, the decoder delivers at least one
\* frame, and the frames are 480 high, 640 wide, 3 channels.
Decodable(file) ==
  file.kind = "video" /\ file.n >= 1 /\ file.frame = <<Height, Width, Channels>>

\* The frames of a decodable video file of camera cam, channel first.
FramesOf(name, cam, file) ==
  [shape |-> <<file.n, Channels, Height, Width>>, src |-> <<name, cam>>]

SameFrames(array, frames) == array.shape = frames.shape /\ array.src = frames.src

\* A record file the Episode Loader has to reject: a required column is
\* missing, or a required column is not a matrix of rows of 28 entries.
Rejectable(table) ==
  ~(\A c \in RequiredColumns :
      /\ c \in table.names
      /\ Len(table.cols[c]) >= 1
      /\ \A i \in 1..Len(table.cols[c]) : table.cols[c][i] = NumJoints)

WrittenByPipeline(e) == out_files[e].origin = "create_hdf5_file"

\* C1: in every container process_episode wrote, the action dataset and each
\* of the three camera datasets have exactly as many rows as observation/qpos
\* (and state and action carry the same channel names).
C1_StepCount ==
  \A e \in Episodes :
    WrittenByPipeline(e) =>
      LET c == out_files[e]
          steps == c.qpos.data.shape[1]
      IN /\ c.action.data.shape[1] = steps
         /\ c.action.names = c.qpos.names
         /\ DOMAIN c.images = Range(WrittenCams)
         /\ \A cam \in DOMAIN c.images : c.images[cam].data.shape[1] = steps

\* C1 witness: a container of MaxSteps steps has been written.
C1_Witness ==
  \E e \in Episodes : WrittenByPipeline(e) /\ out_files[e].qpos.data.shape[1] = MaxSteps

\* C2: create_hdf5_file is only reached with both columns found, state and
\* action 2-D with 28 columns, a primary source decoded with more than zero
\* frames and every camera's frame count equal to the step count; and after a
\* call in which both primary sources failed, the episode has no container.
C2_WriterAfterChecks ==
  /\ (pc = "write" \/ "writer" \in call.ran) =>
       LET t == tables[episode_name]
           d == episode_data
       IN /\ RequiredColumns \subseteq t.names
          /\ d.qpos.ndim = 2 /\ d.qpos.shape[2] = NumJoints
          /\ d.action.ndim = 2 /\ d.action.shape[2] = NumJoints
          /\ "cam_right_high" \in DOMAIN d.images
          /\ d.images["cam_right_high"].shape[1] > 0
          /\ d.images["cam_right_high"].src \in
               {<<episode_name, "cam_right_high">>, <<episode_name, "cam_left_high">>}
          /\ \A cam \in Range(WrittenCams) :
               /\ cam \in DOMAIN d.images
               /\ d.images[cam].shape[1] = d.qpos.shape[1]
  /\ (/\ call.name # 0 /\ pc \in {"returned", "raised"}
      /\ {"cam_right_high", "cam_left_high"} \subseteq DOMAIN call.reads
      /\ ~Decodable(videos[<<call.name, "cam_right_high">>])
      /\ ~Decodable(videos[<<call.name, "cam_left_high">>]))
       => out_files[call.name] = NoFile

\* C2 witness: create_hdf5_file has run in the current call.
C2_Witness == pc = "returned" /\ "writer" \in call.ran /\ call.outcome = "written"

\* C3 (as claimed): when main has ended, process_episode has been called for
\* every record file of the directory, whatever happened to the others.
C3_BatchContinues ==
  (run >= 1 /\ main_pc \in {"returned", "raised"}) => called = RecordStems(listing)

\* C4: while and after the cameras are gathered, the array stored under
\* cam_right_high is the decoded cam_right_high video when that decodes (and
\* cam_left_high is then not read), and otherwise the decoded cam_left_high
\* video; the cam_right_high dataset of the written container is that array.
C4_Fallback ==
  LET n == call.name
      right == videos[<<n, "cam_right_high">>]
      left == videos[<<n, "cam_left_high">>]
  IN /\ (n # 0 /\ "cam_right_high" \in DOMAIN call.reads /\ Decodable(right)) =>
          "cam_left_high" \notin DOMAIN call.reads
     /\ (pc \in {"wrists", "validate", "write"} \/ call.outcome = "written") =>
          LET expected == IF Decodable(right) THEN FramesOf(n, "cam_right_high", right)
                          ELSE FramesOf(n, "cam_left_high", left)
          IN /\ Decodable(right) \/ Decodable(left)
             /\ SameFrames(episode_data.images["cam_right_high"], expected)
             /\ call.outcome = "written" =>
                  SameFrames(out_files[n].images["cam_right_high"].data, expected)

\* C4 witness: a container was written from the cam_left_high fallback.
C4_Witness ==
  /\ call.outcome = "written"
  /\ ~Decodable(videos[<<call.name, "cam_right_high">>])
  /\ Decodable(videos[<<call.name, "cam_left_high">>])
  /\ out_files[call.name].images["cam_right_high"].data.src = <<call.name, "cam_left_high">>

\* C5: from the second run of main on, the output directories and containers
\* stay what they were when the previous run ended, and no container is written.
C5_Idempotent ==
  run >= 2 =>
    /\ out_dirs = snap.dirs
    /\ out_files = snap.files
    /\ \A w \in writes : w[1] = 1

\* C5 witness: the second run has returned after a first run that wrote.
C5_Witness == run = 2 /\ main_pc = "returned" /\ writes # {} /\ call.outcome = "skipped"

\* C6: a call whose record file the Episode Loader has to reject ends with the
\* loader's exception and creates neither the episode's output directory nor
\* its container.
C6_RejectedBeforeWrite ==
  (call.name # 0 /\ "loader" \in call.ran /\ Rejectable(tables[call.name])) =>
    /\ pc = "raised" /\ error.at = "loader"
    /\ call.name \in out_dirs <=> call.dir0
    /\ out_files[call.name] = call.file0

\* C6 witness: a table whose state rows have 27 entries was rejected for an
\* episode that has no output directory.
C6_Witness ==
  /\ call.name # 0 /\ pc = "raised" /\ error.at = "loader" /\ ~call.dir0
  /\ RequiredColumns \subseteq tables[call.name].names
  /\ tables[call.name].nrows >= 1
  /\ \A i \in 1..tables[call.name].nrows :
       tables[call.name].cols[state_col_name][i] = NumJoints - 1

\* A secondary camera read in the current call whose video failed to decode.
FailedSecondary(cam) ==
  /\ call.name # 0
  /\ cam \in Range(SecondaryCams) \cap DOMAIN call.reads
  /\ ~Decodable(videos[<<call.name, cam>>])

\* C7 (as claimed): once a call in which a secondary camera failed to decode
\* (the primary camera having decoded) has ended, its container is written.
C7_WriteProceeds ==
  \A cam \in Range(SecondaryCams) :
    (FailedSecondary(cam) /\ pc \in {"returned", "raised"}) => call.outcome = "written"

\* C7 (amended): a secondary camera that fails to decode gets zero frames and
\* the Video Loader goes on; the call then ends in the Consistency Validator's
\* step-count error and no container is written for the episode.
C7_SecondaryFailure ==
  \A cam \in Range(SecondaryCams) :
    FailedSecondary(cam) =>
      /\ call.reads[cam].shape[1] = 0
      /\ episode_data.images[cam] = call.reads[cam]
      /\ "cam_right_high" \in DOMAIN episode_data.images
      /\ \/ pc \in {"wrists", "validate"}
         \/ pc = "raised" /\ error = Raise("AssertionError", "validator")
      /\ out_files[call.name] = NoFile
      /\ "writer" \notin call.ran

\* C7 witness: cam_right_wrist failed to decode, every other camera has as
\* many frames as there are steps, and the call ended in the validator.
C7_Witness ==
  /\ FailedSecondary("cam_right_wrist")
  /\ pc = "raised" /\ error.at = "validator"
  /\ episode_data.images["cam_right_high"].shape[1] = episode_data.qpos.shape[1]
  /\ episode_data.images["cam_left_wrist"].shape[1] = episode_data.qpos.shape[1]

\* C8 (as claimed): for an episode whose container existed when
\* process_episode was called, no component runs, no error is raised and the
\* container stays as it was.
C8_SkippedEntirely ==
  (call.name # 0 /\ call.existed) =>
    /\ call.ran = {}
    /\ pc # "raised"
    /\ out_files[call.name] = call.file0

\* C8 (amended): for an episode whose container existed when process_episode
\* was called, only the Episode Loader runs: the call ends either with the
\* loader's error or skipped, and the container stays as it was.
C8_SkipExisting ==
  (call.name # 0 /\ call.existed) =>
    /\ call.ran \subseteq {"loader"}
    /\ pc \in {"load", "output", "returned", "raised"}
    /\ pc = "raised" => error.at = "loader"
    /\ pc = "returned" => call.outcome = "skipped"
    /\ out_files[call.name] = call.file0
    /\ \A w \in writes : w # <<run, call.name>>

\* C8 witness: a call for an episode with a container returned as skipped.
C8_Witness ==
  call.name # 0 /\ call.existed /\ pc = "returned" /\ call.outcome = "skipped"

\* C9: read_video never raises; it returns zero frames exactly when the video
\* does not decode (missing, corrupt, no frames, frames not (3, 480, 640)) and
\* otherwise all the video's frames, at least one, each of shape (3, 480, 640).
C9_ReadVideo ==
  /\ error.at # "read_video"
  /\ call.name # 0 =>
       \A cam \in DOMAIN call.reads :
         LET file == videos[<<call.name, cam>>]
             result == call.reads[cam]
         IN /\ result.shape[1] > 0 <=> Decodable(file)
            /\ SubSeq(result.shape, 2, 4) = <<Channels, Height, Width>>
            /\ Decodable(file) => /\ SameFrames(result, FramesOf(call.name, cam, file))
                                  /\ result.shape[1] >= 1

\* C9 witness: read_video returned zero frames for a video whose frames have
\* another shape, after returning frames for a video that decodes.
C9_Witness ==
  /\ call.name # 0
  /\ \E cam \in DOMAIN call.reads :
       /\ videos[<<call.name, cam>>].kind = "video"
       /\ videos[<<call.name, cam>>].n >= 1
       /\ ~Decodable(videos[<<call.name, cam>>])
       /\ call.reads[cam].shape[1] = 0
  /\ \E cam \in DOMAIN call.reads : call.reads[cam].shape[1] = MaxFrames

\* C10 (as claimed): when process_episode has ended, by return or by
\* exception, no file handle opened during the call is still open.
C10_HandlesReleased == pc \in {"returned", "raised"} => handles = {}

\* The step-count invariant of a container: every camera dataset has as many
\* frames as observation/qpos has rows.
StepCountInvariant(file) ==
  \A c \in DOMAIN file.images : file.images[c][1] = file.qpos[1]

\* C11: right after an update_frame, every frame it read was read at an index
\* i with 0 <= i < total_frames, total_frames being the frame count of the
\* first camera of the loaded container; an update_frame that found
\* current_frame >= total_frames read nothing and stopped the timer; and when
\* the loaded container satisfies the step-count invariant, every read was
\* inside its camera's dataset and the slot did not fail.
C11_FrameIndexInRange ==
  last_tick.ran =>
    /\ \A r \in last_tick.reads :
         /\ 0 <= r.index /\ r.index < total_frames
         /\ r.index = last_tick.found
         /\ total_frames = hdf5_data.images[keys(hdf5_data.images)[1]][1]
    /\ last_tick.found >= last_tick.total =>
         last_tick.reads = {} /\ ~timer_active /\ ~last_tick.timer
    /\ last_tick.found < last_tick.total =>
         last_tick.reads # {} \/ camera_names = <<>>
    /\ (hdf5_data.open /\ StepCountInvariant(hdf5_data)) =>
         /\ \A r \in last_tick.reads : InRange(hdf5_data.images[r.cam], r.index)
         /\ app = "running"

\* C11 witness: an update_frame read the last frame, which is not the first,
\* of three cameras.
C11_Witness ==
  /\ last_tick.ran
  /\ Cardinality(last_tick.reads) = Len(KeyOrder)
  /\ last_tick.found = total_frames - 1
  /\ last_tick.found >= 1
  /\ current_frame = total_frames
====
